---- MODULE Spec2Model ----
(***************************************************************************)
(* Block-sample correlation and drain of the blockperf agent.              *)
(*                                                                         *)
(* Blockperf (app.py) runs the ingestion activity (process_events) and the *)
(* drain activity (send_block_samples) under one asyncio.TaskGroup.  Both  *)
(* share the dict block_sample_groups.  A step of the model is the code    *)
(* that runs between two suspension points (await) of one activity.        *)
(*                                                                         *)
(* Timestamps of log records ("at", slot_time) are counted in              *)
(* microseconds since the network start time (network_config.starttime),   *)
(* so slot_time = slot * 1000000.  The wall clock (time.time()) is counted *)
(* in ticks of 1/TicksPerSec second.                                       *)
(*                                                                         *)
(* app.py and handler.py name the group class BlockSampleGroup; the group  *)
(* is modelled from BlockEventGroup of collectors.py, the class with these *)
(* fields and methods in the source.  The JSON encoding of a sample by the *)
(* api client is not modelled: a submit is its sample and its result.      *)
(*                                                                         *)
(* The peer map (peers) is filled by EventHandler.peer_event and           *)
(* reconciled with the sockets of the host by update_peers_connections.    *)
(* Peer is read with the field names its constructor calls use             *)
(* (remote_addr, remote_port, local_addr, local_port) and the defaults of  *)
(* models/peer.py.  Blockperf.start has the creation of the reconciliation *)
(* task commented out; the task is modelled as its code defines it, on the *)
(* same peer map.  last_updated and the "at" of a peer event are counted   *)
(* in ticks of the wall clock.                                             *)
(***************************************************************************)
EXTENDS Integers, Sequences, FiniteSets, TLC

VARIABLES app, ipc, replaying, block_sample_groups, order, now, nev,
          created, min_age, dpc, ready_groups, ready, sample, posts,
          pg, pres, peers, pevents, connections, sup, sampled

vars == <<app, ipc, replaying, block_sample_groups, order, now, nev,
          created, min_age, dpc, ready_groups, ready, sample, posts, pg, pres,
          peers, pevents, connections, sup, sampled>>

----------------------------------------------------------------------------
(* Bounds of the model *)

\* clock resolution: ticks per second of time.time()
TicksPerSec == 4
\* records are ingested only up to this clock value
MaxIngestNow == 1
\* number of block records the log source delivers in the live phase
MaxIngest == 8
\* largest number of records of one group in the specification of the group
MaxEvents == 4
\* largest configured min_age (seconds)
MaxMinAge == 1
\* last clock value: every group can grow older than min_age
\* records received by a group made after the first group of its block was
\* removed, and groups made for one block
MaxLate == 2
MaxCreated == 2
\* lines the log source writes before it ends
MaxLines == 3
\* peer events processed, socket reconciliations run
MaxPeerEvents == 3
MaxReconcile == 1
\* peer events are processed up to this time
MaxPeerNow == MaxIngestNow + 1
MaxNow == MaxIngestNow + (MaxMinAge + 1) * TicksPerSec

Hashes == {"H1", "H2"}

----------------------------------------------------------------------------
(* Python values *)

\* None for the optional int fields of a group
NoneInt == -1
\* None for the optional event fields of a group
NoneEv == [type |-> "None"]

\* variant: a slot always counts as unset
TruthyEv_never(e) == FALSE

\* truth value of an optional int: None and 0 are falsy
TruthyInt(x) == x # NoneInt /\ x # 0
\* truth value of an optional event object
TruthyEv(e) == e # NoneEv

\* variant: the factor 1000 is lost, the value is in whole seconds
IntMs_seconds(us) == IF us >= 0 THEN us \div 1000000 ELSE -((-us) \div 1000000)

\* int(x) of the float x = us / 1000: truncation toward zero
IntMs(us) == IF us >= 0 THEN us \div 1000 ELSE -((-us) \div 1000)

\* variant: int() instead of round()
Round_floor(ticks) == ticks \div TicksPerSec

\* round(t) of the float t = ticks / TicksPerSec: nearest integer, ties to even
Round(ticks) ==
    LET q == ticks \div TicksPerSec
        r == ticks % TicksPerSec
    IN  IF 2 * r < TicksPerSec THEN q
        ELSE IF 2 * r > TicksPerSec THEN q + 1
        ELSE IF q % 2 = 0 THEN q ELSE q + 1

----------------------------------------------------------------------------
(* Events (models.py) *)

DownloadedHeaderEvent(h, at, bn, sl, p) ==
    [type |-> "DownloadedHeader", block_hash |-> h, at |-> at, peer |-> p,
     block_number |-> bn, slot |-> sl, block_size |-> NoneInt]

SendFetchRequestEvent(h, at, p) ==
    [type |-> "SendFetchRequest", block_hash |-> h, at |-> at, peer |-> p,
     block_number |-> NoneInt, slot |-> NoneInt, block_size |-> NoneInt]

CompletedBlockFetchEvent(h, at, sz, p) ==
    [type |-> "CompletedBlockFetch", block_hash |-> h, at |-> at, peer |-> p,
     block_number |-> NoneInt, slot |-> NoneInt, block_size |-> sz]

AddedToCurrentChainEvent(h, at) ==
    [type |-> "AddedToCurrentChain", block_hash |-> h, at |-> at, peer |-> "-",
     block_number |-> NoneInt, slot |-> NoneInt, block_size |-> NoneInt]

SwitchedToAForkEvent(h, at) ==
    [type |-> "SwitchedToAFork", block_hash |-> h, at |-> at, peer |-> "-",
     block_number |-> NoneInt, slot |-> NoneInt, block_size |-> NoneInt]

----------------------------------------------------------------------------
(* BlockEventGroup (collectors.py) *)

\* variant: created_at = time.time() evaluated once, when the class is defined
NewGroup_stale(h, t, i) ==
    [block_hash |-> h, block_number |-> NoneInt, block_size |-> NoneInt,
     slot |-> NoneInt, slot_time |-> NoneInt,
     block_header |-> NoneEv, block_requested |-> NoneEv,
     block_completed |-> NoneEv, events |-> <<>>, created_at |-> 0,
     inst |-> i]

\* a new group: BlockEventGroup(block_hash=h), created_at = time.time();
\* inst tells the groups of one hash apart: the i-th group made for h
NewGroup(h, t, i) ==
    [block_hash |-> h, block_number |-> NoneInt, block_size |-> NoneInt,
     slot |-> NoneInt, slot_time |-> NoneInt,
     block_header |-> NoneEv, block_requested |-> NoneEv,
     block_completed |-> NoneEv, events |-> <<>>, created_at |-> t,
     inst |-> i]

RECURSIVE FirstMatch(_, _, _)
\* _get_fetch_for_completed: first SendFetchRequest of the same peer, from i on
FirstMatch(evs, ev, i) ==
    IF i > Len(evs) THEN NoneEv
    ELSE IF evs[i].type = "SendFetchRequest" /\ evs[i].peer = ev.peer
         THEN evs[i]
         ELSE FirstMatch(evs, ev, i + 1)

\* variant: the first SendFetchRequest of the audit log, whatever its peer
_get_fetch_first(g, ev) ==
    LET rs == SelectSeq(g.events, LAMBDA e : e.type = "SendFetchRequest")
    IN  IF rs = << >> THEN NoneEv ELSE rs[1]

_get_fetch_for_completed(g, ev) == FirstMatch(g.events, ev, 1)

RECURSIVE FirstAdopted(_, _)
FirstAdopted(evs, i) ==
    IF i > Len(evs) THEN NoneEv
    ELSE IF evs[i].type \in {"AddedToCurrentChain", "SwitchedToAFork"}
         THEN evs[i]
         ELSE FirstAdopted(evs, i + 1)

\* property block_adopted: first adoption event of the audit log
block_adopted(g) == FirstAdopted(g.events, 1)

\* add_event raises EventError for this event in this group
add_event_raises(g, ev) ==
    /\ ev.type = "CompletedBlockFetch"
    /\ ~TruthyEv(g.block_completed)
    /\ ~TruthyEv(_get_fetch_for_completed([g EXCEPT !.events = Append(g.events, ev)], ev))

\* the group after add_event(ev), also when it raises
add_event(g, ev) ==
    LET g1 == [g EXCEPT !.events = Append(g.events, ev)]
    IN  IF ev.type = "DownloadedHeader" THEN
            LET sl == IF TruthyInt(g1.slot) THEN g1.slot ELSE ev.slot
            IN  [g1 EXCEPT
                   !.block_header = IF TruthyEv(g1.block_header)
                                    THEN g1.block_header ELSE ev,
                   !.slot = sl,
                   !.slot_time = IF g1.slot_time # NoneInt
                                 THEN g1.slot_time ELSE sl * 1000000,
                   !.block_number = IF TruthyInt(g1.block_number)
                                    THEN g1.block_number ELSE ev.block_number]
        ELSE IF ev.type = "CompletedBlockFetch" THEN
            IF ~TruthyEv(g1.block_completed) THEN
                LET rq == _get_fetch_for_completed(g1, ev)
                IN  IF ~TruthyEv(rq)
                    THEN [g1 EXCEPT !.block_completed = ev]
                    ELSE [g1 EXCEPT
                            !.block_completed = ev,
                            !.block_requested = rq,
                            !.block_size = IF TruthyInt(g1.block_size)
                                           THEN g1.block_size ELSE ev.block_size]
            ELSE [g1 EXCEPT !.block_size = IF TruthyInt(g1.block_size)
                                           THEN g1.block_size ELSE ev.block_size]
        ELSE g1

\* len(block_hash): a block hash is a string of 64 hex characters
HashLen(h) == 64

age_seconds(g, t) == Round(t - g.created_at)

header_delta(g) == g.block_header.at - g.slot_time
block_request_delta(g) == g.block_requested.at - g.block_header.at
block_response_delta(g) == g.block_completed.at - g.block_requested.at
block_adopt_delta(g) == block_adopted(g).at - g.block_completed.at

\* variant: the adoption is not required
is_complete_noadopt(g) ==
    /\ TruthyEv(g.block_header)
    /\ TruthyEv(g.block_requested)
    /\ TruthyEv(g.block_completed)

is_complete(g) ==
    /\ TruthyEv(g.block_header)
    /\ TruthyEv(g.block_requested)
    /\ TruthyEv(g.block_completed)
    /\ TruthyEv(block_adopted(g))

\* variant: one digit too many in a bound of block_response_delta
is_sane_wide(g) ==
    /\ g.block_number > 0
    /\ g.slot > 0
    /\ 0 < HashLen(g.block_hash) /\ HashLen(g.block_hash) < 128
    /\ 0 < g.block_size /\ g.block_size < 10000000
    /\ -6000 < IntMs(header_delta(g)) /\ IntMs(header_delta(g)) < 600000
    /\ -6000 < IntMs(block_request_delta(g))
    /\ IntMs(block_request_delta(g)) < 600000
    /\ -6000 < IntMs(block_response_delta(g))
    /\ IntMs(block_response_delta(g)) < 6000000
    /\ -6000 < IntMs(block_adopt_delta(g))
    /\ IntMs(block_adopt_delta(g)) < 600000

\* variant: the upper bound of block_size is closed
is_sane_closed(g) ==
    /\ g.block_number > 0
    /\ g.slot > 0
    /\ 0 < HashLen(g.block_hash) /\ HashLen(g.block_hash) < 128
    /\ 0 < g.block_size /\ g.block_size <= 10000000
    /\ -6000 < IntMs(header_delta(g)) /\ IntMs(header_delta(g)) < 600000
    /\ -6000 < IntMs(block_request_delta(g))
    /\ IntMs(block_request_delta(g)) < 600000
    /\ -6000 < IntMs(block_response_delta(g))
    /\ IntMs(block_response_delta(g)) < 600000
    /\ -6000 < IntMs(block_adopt_delta(g))
    /\ IntMs(block_adopt_delta(g)) < 600000

is_sane(g) ==
    /\ g.block_number > 0
    /\ g.slot > 0
    /\ 0 < HashLen(g.block_hash) /\ HashLen(g.block_hash) < 128
    /\ 0 < g.block_size /\ g.block_size < 10000000
    /\ -6000 < IntMs(header_delta(g)) /\ IntMs(header_delta(g)) < 600000
    /\ -6000 < IntMs(block_request_delta(g))
    /\ IntMs(block_request_delta(g)) < 600000
    /\ -6000 < IntMs(block_response_delta(g))
    /\ IntMs(block_response_delta(g)) < 600000
    /\ -6000 < IntMs(block_adopt_delta(g))
    /\ IntMs(block_adopt_delta(g)) < 600000

NoSample == [block_hash |-> "None"]

Sample(g) ==
    [block_hash |-> g.block_hash,
     block_number |-> g.block_number,
     block_size |-> g.block_size,
     slot |-> g.slot,
     slot_time |-> g.slot_time,
     header_remote |-> g.block_header.peer,
     header_delta |-> IntMs(header_delta(g)),
     block_remote |-> g.block_completed.peer,
     block_request_delta |-> IntMs(block_request_delta(g)),
     block_response_delta |-> IntMs(block_response_delta(g)),
     block_adopt_delta |-> IntMs(block_adopt_delta(g))]

----------------------------------------------------------------------------
(* The log source of the main specification: per block hash the records of *)
(* the spec's end-to-end scenarios 1 to 3.                                  *)

\* slot of the scenario block and the header's arrival time T0
T0 == 1000 * 1000000 + 50000

BlockEvents(h) ==
    { DownloadedHeaderEvent(h, T0, 100, 1000, "P1"),
      SendFetchRequestEvent(h, T0 + 100000, "P1"),
      SendFetchRequestEvent(h, T0 + 100000, "P2"),
      CompletedBlockFetchEvent(h, T0 + 300000, 1999, "P1"),
      CompletedBlockFetchEvent(h, T0 + 700000000, 1999, "P1"),
      AddedToCurrentChainEvent(h, T0 + 350000),
      SwitchedToAForkEvent(h, T0 + 700050000) }

MainEvents == UNION { BlockEvents(h) : h \in Hashes }

\* results of one POST /submit/blocksample
Results == {"ok", "5xx", "4xx", "connect", "timeout"}

----------------------------------------------------------------------------
(* State *)

RemoveKey(seq, k) == SelectSeq(seq, LAMBDA x : x # k)

MainInit ==
    /\ app = "running"
    /\ ipc = "open"
    /\ replaying = "unset"
    /\ block_sample_groups = << >>
    /\ order = << >>
    /\ now = 0
    /\ nev = 0
    /\ created = [h \in Hashes |-> 0]
    /\ min_age \in 1..MaxMinAge
    /\ dpc = "sleep"
    /\ ready_groups = << >>
    /\ ready = 0
    /\ sample = NoSample
    /\ posts = << >>
    /\ sampled = << >>
    /\ peers = << >>
    /\ pevents = << >>
    /\ connections = << >>

PureIdle ==
    /\ pg = NoneEv
    /\ pres = NoneEv

\* the supervision of the tasks and the subprocess of the log reader are
\* followed in SpecSup only
SupIdle == sup = NoneEv

----------------------------------------------------------------------------
(* Supervision: the TaskGroup of Blockperf.start and the journalctl        *)
(* subprocess of the log reader.  sup.process is the subprocess as the     *)
(* reader sees it: "running", "exited" (ended by itself, not yet noticed), *)
(* "terminating" (SIGTERM sent), "terminated" (ended after SIGTERM),       *)
(* "killed" (SIGKILL sent) or "None" (self.process = None).                *)

\* the tasks Blockperf.start creates in its TaskGroup; the creation of
\* update_peers_connections and update_peers_unknown is commented out
StartedTasks == {"event_processor", "block_sender", "stats_printer"}

\* timeout of the wait for the subprocess in close(): one second, in ticks
CloseGrace == TicksPerSec

\* Blockperf.start has created its tasks and process_events has entered
\* "async with self.log_reader": the subprocess runs
NewSup ==
    [tasks |-> [t \in StartedTasks |-> "running"],
     exit_as |-> "none",
     shutdown_event |-> FALSE,
     process |-> "running",
     term_at |-> 0,
     kill_at |-> 0,
     closed_by |-> "none",
     message_count |-> 0,
     dropped |-> 0,
     ignored |-> 0,
     returned |-> FALSE]

\* self.process.terminate(): the signal goes to the subprocess; for a
\* subprocess that has ended by itself it either still finds the child or
\* raises ProcessLookupError
Terminate(p) ==
    CASE p = "running" -> {[process |-> "terminating", raised |-> FALSE]}
      [] p = "exited" -> {[process |-> "terminated", raised |-> FALSE],
                          [process |-> "exited", raised |-> TRUE]}
      [] OTHER -> {[process |-> p, raised |-> FALSE]}

\* process_events leaves "async with self.log_reader" to end as how:
\* __aexit__ calls close(), which runs up to its wait for the subprocess;
\* an error of terminate() ends the task at once
EnterClose(s, how, t) ==
    { IF o.raised
      THEN [s EXCEPT !.tasks["event_processor"] = "failed",
                     !.process = o.process]
      ELSE [s EXCEPT !.tasks["event_processor"] = "closing",
                     !.exit_as = how,
                     !.process = o.process,
                     !.term_at = t] : o \in Terminate(s.process) }

\* the TaskGroup cancels the tasks other than event_processor: they end at
\* their await
CancelSiblings(s) ==
    [s EXCEPT !.tasks = [t \in StartedTasks |->
        IF t # "event_processor" /\ s.tasks[t] = "running"
        THEN "cancelled" ELSE s.tasks[t]]]

\* the TaskGroup cancels event_processor: in its loop it leaves through
\* close(); inside close() the CancelledError ends the wait for the
\* subprocess and close() with it
CancelEventProcessor(s, t) ==
    CASE s.tasks["event_processor"] = "running" -> EnterClose(s, "cancelled", t)
      [] s.tasks["event_processor"] = "closing" ->
            {[s EXCEPT !.tasks["event_processor"] = "cancelled"]}
      [] OTHER -> {s}

\* the task name ends with an error: _run_task re-raises, the TaskGroup
\* cancels the other tasks
AbortBy(s, name, t) ==
    IF s = NoneEv THEN {s}
    ELSE CancelEventProcessor(
            CancelSiblings([s EXCEPT !.tasks[name] = "failed"]), t)

\* every task of the TaskGroup has ended
AllDone(s) ==
    \A t \in StartedTasks : s.tasks[t] \in {"done", "failed", "cancelled"}

Init ==
    /\ MainInit
    /\ SupIdle
    /\ PureIdle

----------------------------------------------------------------------------
(* Ingestion activity: Blockperf.process_events *)

\* the log reader is open, the replay phase starts
OpenLogReader ==
    /\ app = "running" /\ ipc = "open"
    /\ ipc' = "replay"
    /\ replaying' = "True"
    /\ UNCHANGED <<app, block_sample_groups, order, now, nev, created, min_age, dpc,
                   ready_groups, ready, sample, posts, pg, pres,
                   peers, pevents, connections, sup, sampled>>

\* replay_from_startup() is exhausted: its messages were only counted
ReplayDone ==
    /\ app = "running" /\ ipc = "replay"
    /\ ipc' = "live"
    /\ replaying' = "False"
    /\ UNCHANGED <<app, block_sample_groups, order, now, nev, created, min_age, dpc,
                   ready_groups, ready, sample, posts, pg, pres,
                   peers, pevents, connections, sup, sampled>>

\* variant: the event goes to the group made last, whatever its hash
blocksample_event_last(groups, ev, t, i) ==
    LET h == IF order = << >> THEN ev.block_hash ELSE order[Len(order)]
        g == IF h \in DOMAIN groups THEN groups[h] ELSE NewGroup(h, t, i)
    IN  [k \in DOMAIN groups \cup {h} |->
            IF k = h THEN add_event(g, ev) ELSE groups[k]]

\* EventHandler.blocksample_event: find or create the group, add the event
blocksample_event(groups, ev, t, i) ==
    LET h == ev.block_hash
        g == IF h \in DOMAIN groups THEN groups[h] ELSE NewGroup(h, t, i)
    IN  [k \in DOMAIN groups \cup {h} |->
            IF k = h THEN add_event(g, ev) ELSE groups[k]]

\* _process_message for one live record of a block-sample namespace; an
\* EventError of add_event is caught and logged, its effects remain
ProcessMessage(ev) ==
    /\ app = "running" /\ ipc = "live"
    /\ block_sample_groups' =
          blocksample_event(block_sample_groups, ev, now,
                            created[ev.block_hash] + 1)
    /\ order' = IF ev.block_hash \in DOMAIN block_sample_groups
                THEN order ELSE Append(order, ev.block_hash)
    /\ created' = IF ev.block_hash \in DOMAIN block_sample_groups
                  THEN created
                  ELSE [created EXCEPT ![ev.block_hash] = @ + 1]
    /\ nev' = nev + 1
    /\ UNCHANGED <<app, ipc, replaying, now, min_age, dpc, ready_groups, ready,
                   sample, posts, pg, pres,
                   peers, pevents, connections, sup, sampled>>

\* position of a record in the pipeline of its block
Stage(ev) ==
    CASE ev.type = "DownloadedHeader" -> 1
      [] ev.type = "SendFetchRequest" -> 2
      [] ev.type = "CompletedBlockFetch" -> 3
      [] OTHER -> 4

\* number of records received for the block of ev since its group was created
Received(ev) ==
    IF ev.block_hash \in DOMAIN block_sample_groups
    THEN Len(block_sample_groups[ev.block_hash].events) ELSE 0

\* the log source of the main specification: the records of one block come
\* in pipeline order (header, request, completed, adoption)
Ingest ==
    \E ev \in MainEvents :
        /\ nev < MaxIngest /\ now <= MaxIngestNow
        /\ Stage(ev) = Received(ev) + 1
        /\ ProcessMessage(ev)

\* time passes
Tick ==
    /\ app = "running"
    /\ now < MaxNow
    /\ now' = now + 1
    /\ UNCHANGED <<app, ipc, replaying, block_sample_groups, order, nev, created, min_age, dpc,
                   ready_groups, ready, sample, posts, pg, pres,
                   peers, pevents, connections, sup, sampled>>

----------------------------------------------------------------------------
(* Drain activity: Blockperf.send_block_samples *)

\* variant: >= instead of >
IsReady_ge(g, t, minage) == is_complete(g) /\ age_seconds(g, t) >= minage

\* the filter of the first loop: complete and old enough
IsReady(g, t, minage) == is_complete(g) /\ age_seconds(g, t) > minage

\* ready_groups: the selected keys in dict order
SelectReady(groups, ord, t, minage) ==
    SelectSeq(ord, LAMBDA k : IsReady(groups[k], t, minage))

RECURSIVE NextSaneIdx(_, _, _)
\* second loop: position of the next group of rg, from i on, that is sane;
\* the groups that are not sane are passed over with `continue`
NextSaneIdx(rg, i, groups) ==
    IF i > Len(rg) THEN 0
    ELSE IF is_sane(groups[rg[i]]) THEN i
    ELSE NextSaneIdx(rg, i + 1, groups)

\* the rest of the second loop from position i on, up to the next await:
\* either a sample is handed to the api client or the loop ends
Proceed(i, groups) ==
    LET j == NextSaneIdx(ready_groups', i, groups)
    IN  IF j = 0
        THEN /\ dpc' = "sleep"
             /\ ready' = 0
             /\ sample' = NoSample
             /\ sampled' = << >>
        ELSE /\ dpc' = "posting"
             /\ ready' = j
             /\ sample' = Sample(groups[ready_groups'[j]])
             /\ sampled' = groups[ready_groups'[j]].events

\* the sleep ends before process_events has assigned self.replaying:
\* AttributeError ends the drain, the task group cancels the other tasks
DrainTickUnset ==
    /\ app = "running" /\ dpc = "sleep"
    /\ replaying = "unset"
    /\ app' = "stopped"
    /\ UNCHANGED <<ipc, replaying, block_sample_groups, order, now, nev, created,
                   min_age, dpc, ready_groups, ready, sample, posts, pg, pres,
                   peers, pevents, connections, sampled>>
    /\ sup' \in AbortBy(sup, "block_sender", now)

\* the sleep ends during the replay: the tick is skipped
DrainTickReplay ==
    /\ app = "running" /\ dpc = "sleep"
    /\ replaying = "True"
    /\ ready_groups' = << >>
    /\ UNCHANGED <<app, ipc, replaying, block_sample_groups, order, now, nev, created,
                   min_age, dpc, ready, sample, posts, pg, pres,
                   peers, pevents, connections, sup, sampled>>

\* the sleep ends in the live phase: select the ready groups, pass over the
\* ones that are not sane, hand the first sane one to the api client
DrainTick ==
    /\ app = "running" /\ dpc = "sleep"
    /\ replaying = "False"
    /\ ready_groups' = SelectReady(block_sample_groups, order, now, min_age)
    /\ Proceed(1, block_sample_groups)
    /\ UNCHANGED <<app, ipc, replaying, block_sample_groups, order, now, nev, created,
                   min_age, posts, pg, pres,
                   peers, pevents, connections, sup>>

\* variant: the group is not deleted after the response
PostOk_keeps ==
    /\ app = "running" /\ dpc = "posting"
    /\ LET k == ready_groups[ready]
           groups == block_sample_groups
       IN  /\ k \in DOMAIN block_sample_groups
           /\ posts' = Append(posts, [sample |-> sample, result |-> "ok",
                                      inst |-> block_sample_groups[k].inst])
           /\ block_sample_groups' = groups
           /\ order' = order
           /\ ready_groups' = ready_groups
           /\ Proceed(ready + 1, groups)
    /\ UNCHANGED <<app, ipc, replaying, now, nev, created, min_age, pg, pres,
                   peers, pevents, connections, sup>>

\* variant: a group that got records while its sample was in flight is kept
PostOk_grown ==
    /\ app = "running" /\ dpc = "posting"
    /\ LET k == ready_groups[ready]
           grown == block_sample_groups[k].events # sampled
           groups == IF grown THEN block_sample_groups
                     ELSE [h \in DOMAIN block_sample_groups \ {k} |->
                              block_sample_groups[h]]
       IN  /\ k \in DOMAIN block_sample_groups
           /\ posts' = Append(posts, [sample |-> sample, result |-> "ok",
                                      inst |-> block_sample_groups[k].inst])
           /\ block_sample_groups' = groups
           /\ order' = IF grown THEN order ELSE RemoveKey(order, k)
           /\ ready_groups' = ready_groups
           /\ Proceed(ready + 1, groups)
    /\ UNCHANGED <<app, ipc, replaying, now, nev, created, min_age, pg, pres,
                   peers, pevents, connections, sup>>

\* api.post_block_sample returns the response: delete the group, go on
PostOk ==
    /\ app = "running" /\ dpc = "posting"
    /\ LET k == ready_groups[ready]
           groups == [h \in DOMAIN block_sample_groups \ {k} |->
                         block_sample_groups[h]]
       IN  /\ k \in DOMAIN block_sample_groups
           /\ posts' = Append(posts, [sample |-> sample, result |-> "ok",
                                      inst |-> block_sample_groups[k].inst])
           /\ block_sample_groups' = groups
           /\ order' = RemoveKey(order, k)
           /\ ready_groups' = ready_groups
           /\ Proceed(ready + 1, groups)
    /\ UNCHANGED <<app, ipc, replaying, now, nev, created, min_age, pg, pres,
                   peers, pevents, connections, sup>>

\* api.post_block_sample raises (HTTP error status, timeout, no connection):
\* nothing in send_block_samples catches it, the task ends with the error
\* and the task group cancels the other tasks
PostFails(r) ==
    /\ app = "running" /\ dpc = "posting"
    /\ r # "ok"
    /\ posts' = Append(posts, [sample |-> sample, result |-> r,
                               inst |-> block_sample_groups[ready_groups[ready]].inst])
    /\ app' = "stopped"
    /\ UNCHANGED <<ipc, replaying, block_sample_groups, order, now, nev, created,
                   min_age, dpc, ready_groups, ready, sample, pg, pres,
                   peers, pevents, connections, sampled>>
    /\ sup' \in AbortBy(sup, "block_sender", now)

PostRaises == \E r \in Results : PostFails(r)

----------------------------------------------------------------------------

Next ==
    \/ OpenLogReader
    \/ ReplayDone
    \/ Ingest
    \/ Tick
    \/ DrainTickUnset
    \/ DrainTickReplay
    \/ DrainTick
    \/ PostOk
    \/ PostRaises

Spec == Init /\ [][Next]_vars

----------------------------------------------------------------------------
(* Specification of one group: records of one block in any order, with     *)
(* duplicates, straight into the live phase.                               *)

GroupEvents ==
    BlockEvents("H1") \cup
    { DownloadedHeaderEvent("H1", T0 + 900, 0, 0, "P2"),
      CompletedBlockFetchEvent("H1", T0 + 300900, 0, "P2") }

InitGroup ==
    /\ MainInit
    /\ SupIdle
    /\ PureIdle

IngestAny ==
    \E ev \in GroupEvents :
        /\ Received(ev) < MaxEvents
        /\ ProcessMessage(ev)

NextGroup ==
    \/ OpenLogReader
    \/ ReplayDone
    \/ IngestAny

SpecGroup == InitGroup /\ [][NextGroup]_vars

----------------------------------------------------------------------------
(* Specification of is_sane and sample: a complete group is built from     *)
(* records whose values probe the bounds, then is_sane and sample are      *)
(* evaluated on it.                                                        *)

\* timestamp differences (microseconds) on and next to the bounds
ProbeDeltas ==
    { -6000500, -6000000, -5999000, -50900, 50000, 50900,
      599999000, 599999900, 600000000 }
\* timestamp differences of the steps that are not probed
PlainDeltas == { -50900, 50000, 50900 }
ProbeSizes == { 0, 1, 1999, 9999999, 10000000 }
ProbeNumbers == { 0, 100 }
ProbeSlots == { 0, 7 }

\* the group after the four records of one block, d[i] apart
BuildGroup(bn, sl, sz, d) ==
    LET t1 == sl * 1000000 + d[1]
        t2 == t1 + d[2]
        t3 == t2 + d[3]
        t4 == t3 + d[4]
        g1 == add_event(NewGroup("H1", 0, 1),
                        DownloadedHeaderEvent("H1", t1, bn, sl, "P1"))
        g2 == add_event(g1, SendFetchRequestEvent("H1", t2, "P2"))
        g3 == add_event(g2, CompletedBlockFetchEvent("H1", t3, sz, "P2"))
    IN  add_event(g3, AddedToCurrentChainEvent("H1", t4))

InitSane ==
    /\ MainInit
    /\ SupIdle
    /\ pres = NoneEv
    /\ \E bn \in ProbeNumbers, sl \in ProbeSlots, sz \in ProbeSizes,
          i \in 1..4, dp \in ProbeDeltas, d \in [1..4 -> PlainDeltas] :
          pg = BuildGroup(bn, sl, sz, [d EXCEPT ![i] = dp])

Evaluate ==
    /\ pg # NoneEv /\ pres = NoneEv
    /\ pres' = [sane |-> is_sane(pg), sample |-> Sample(pg)]
    /\ UNCHANGED <<app, ipc, replaying, block_sample_groups, order, now, nev, created,
                   min_age, dpc, ready_groups, ready, sample, posts, pg,
                   peers, pevents, connections, sup, sampled>>

NextSane == Evaluate

SpecSane == InitSane /\ [][NextSane]_vars

----------------------------------------------------------------------------
(* Specification of the happy path: every submit succeeds.  The sleep of   *)
(* the drain ends, the POST returns within its timeout, time passes.       *)

NextLive ==
    \/ OpenLogReader
    \/ ReplayDone
    \/ Ingest
    \/ Tick
    \/ DrainTickUnset
    \/ DrainTickReplay
    \/ DrainTick
    \/ PostOk

SpecLive ==
    /\ Init
    /\ [][NextLive]_vars
    /\ WF_vars(Tick)
    /\ WF_vars(DrainTick)
    /\ WF_vars(PostOk)

----------------------------------------------------------------------------
(* Properties *)

KeysOf(seq) == { seq[i] : i \in 1..Len(seq) }

\* all four of header, request, completed, adopted are set
FourSet(g) ==
    /\ g.block_header # NoneEv
    /\ g.block_requested # NoneEv
    /\ g.block_completed # NoneEv
    /\ \E i \in 1..Len(g.events) :
          g.events[i].type \in {"AddedToCurrentChain", "SwitchedToAFork"}

\* age of a group in clock ticks, not rounded
AgeTicks(g) == now - g.created_at

\* the exact age is greater than min_age
Older(g) == AgeTicks(g) > min_age * TicksPerSec

\* the age is at least half a second over min_age; exactly half a second
\* over counts when min_age is odd
HalfOlder(g) ==
    \/ 2 * AgeTicks(g) > (2 * min_age + 1) * TicksPerSec
    \/ /\ 2 * AgeTicks(g) = (2 * min_age + 1) * TicksPerSec
       /\ min_age % 2 = 1

\* this step hands the response of a successful submit to the drain
OkPosted ==
    /\ Len(posts') = Len(posts) + 1
    /\ posts'[Len(posts')].result = "ok"

\* the group the drain is submitting
Current == block_sample_groups[ready_groups[ready]]

Transient == {"5xx", "connect", "timeout"}

\* C1: when the submit of a ready, sane group fails with a transient error
\* (5xx, timeout, no connection) the group stays in block_sample_groups and
\* the drain activity keeps running, so that the group is submitted again.
C1_RetryAfterTransientFailure ==
    [][(\E r \in Transient : PostFails(r))
          => /\ sample.block_hash \in DOMAIN block_sample_groups'
             /\ app' = "running"]_vars

\* C2: on a drain tick every group that is complete and older than min_age
\* but not sane is removed from block_sample_groups in that tick.
C2_InsaneEvicted ==
    [][DrainTick
          => \A k \in KeysOf(ready_groups') :
                ~is_sane(block_sample_groups[k])
                   => k \notin DOMAIN block_sample_groups']_vars

\* C3: a successful submit removes the key of the submitted group from
\* block_sample_groups, and a key leaves block_sample_groups only in the
\* step of a successful submit of that very group.
C3_EvictOnSuccessOnly ==
    [][/\ OkPosted
          => posts'[Len(posts')].sample.block_hash
                \notin DOMAIN block_sample_groups'
       /\ \A k \in DOMAIN block_sample_groups :
             k \notin DOMAIN block_sample_groups'
                => /\ OkPosted
                   /\ posts'[Len(posts')].sample.block_hash = k
                   /\ dpc = "posting" /\ ready_groups[ready] = k]_vars

\* a submitted group is gone while another sane, complete group is kept
C3_Witness ==
    /\ \E i \in 1..Len(posts) :
          /\ posts[i].result = "ok"
          /\ posts[i].sample.block_hash \notin DOMAIN block_sample_groups
    /\ \E k \in DOMAIN block_sample_groups :
          is_complete(block_sample_groups[k]) /\ is_sane(block_sample_groups[k])

\* C4: a group handed to the submitter has all four of header, request,
\* completed, adopted set and its age now - created_at is greater than
\* min_age.
C4_OnlyCompleteAndOldSubmitted ==
    dpc = "posting" => FourSet(Current) /\ Older(Current)

\* a group is being submitted while a group with three of the four slots,
\* older than min_age, stays behind
C4_Witness ==
    /\ dpc = "posting"
    /\ \E k \in DOMAIN block_sample_groups :
          /\ k \notin KeysOf(ready_groups)
          /\ Len(block_sample_groups[k].events) = 3
          /\ block_sample_groups[k].block_completed # NoneEv
          /\ ~FourSet(block_sample_groups[k])
          /\ Older(block_sample_groups[k])

C6_CompleteIffFourSet ==
    \A k \in DOMAIN block_sample_groups :
        is_complete(block_sample_groups[k]) <=> FourSet(block_sample_groups[k])

\* a group with header, request and completed set but no adoption yet
C6_Witness ==
    \E k \in DOMAIN block_sample_groups :
        /\ block_sample_groups[k].block_header # NoneEv
        /\ block_sample_groups[k].block_requested # NoneEv
        /\ block_sample_groups[k].block_completed # NoneEv
        /\ ~is_complete(block_sample_groups[k])

\* the values of a sample are inside the sanity bounds
InBounds(s) ==
    /\ -6000 < s.header_delta /\ s.header_delta < 600000
    /\ -6000 < s.block_request_delta /\ s.block_request_delta < 600000
    /\ -6000 < s.block_response_delta /\ s.block_response_delta < 600000
    /\ -6000 < s.block_adopt_delta /\ s.block_adopt_delta < 600000
    /\ s.block_number > 0
    /\ s.slot > 0
    /\ 0 < s.block_size /\ s.block_size < 10000000

\* C7: every sample handed to the submitter has its four deltas strictly
\* between -6000 and 600000 ms, block_number > 0, slot > 0 and
\* 0 < block_size < 10000000.
C7_SubmittedInBounds ==
    /\ dpc = "posting" => InBounds(sample)
    /\ \A i \in 1..Len(posts) : InBounds(posts[i].sample)

\* a sample is handed over on a tick that also selected a group that is
\* not sane
C7_Witness ==
    /\ dpc = "posting"
    /\ \E i \in 1..Len(ready_groups) :
          /\ ready_groups[i] \in DOMAIN block_sample_groups
          /\ ~is_sane(block_sample_groups[ready_groups[i]])

\* the four timestamp differences of a complete group, in microseconds
Deltas(g) ==
    { header_delta(g), block_request_delta(g), block_response_delta(g),
      block_adopt_delta(g) }

\* C8: the sanity bounds are open: block_size 0 or 10000000 is not sane, a
\* delta of -6000 ms or 600000 ms is not sane; with block_number and slot
\* positive, block_size 1 to 9999999 and every delta from -5999 ms to
\* 599999 ms the group is sane.
C8_OpenBounds ==
    pres # NoneEv
       => /\ pg.block_size \in {0, 10000000} => ~pres.sane
          /\ (\E d \in Deltas(pg) : d \in {-6000000, 600000000}) => ~pres.sane
          /\ ( /\ pg.block_number > 0 /\ pg.slot > 0
               /\ 1 <= pg.block_size /\ pg.block_size <= 9999999
               /\ \A d \in Deltas(pg) : -5999000 <= d /\ d <= 599999000 )
                => pres.sane

\* is_sane was evaluated on a group with block_size 9999999 and a delta of
\* 599999 ms and found it sane
C8_Witness ==
    /\ pres # NoneEv
    /\ pres.sane
    /\ pg.block_size = 9999999
    /\ 599999000 \in Deltas(pg)

\* a difference in microseconds as milliseconds, rounded to the nearest
\* integer (halves away from zero)
RoundMs(us) ==
    IF us >= 0 THEN (us + 500) \div 1000 ELSE -((-us + 500) \div 1000)

\* C9: the four deltas of the sample are the timestamp differences in
\* signed milliseconds rounded to the nearest integer.
C9_DeltasRounded ==
    pres # NoneEv
       => /\ pres.sample.header_delta = RoundMs(header_delta(pg))
          /\ pres.sample.block_request_delta = RoundMs(block_request_delta(pg))
          /\ pres.sample.block_response_delta = RoundMs(block_response_delta(pg))
          /\ pres.sample.block_adopt_delta = RoundMs(block_adopt_delta(pg))

\* the group of hash h holds the records of scenario 1
HappyGroup(h) ==
    /\ h \in DOMAIN block_sample_groups
    /\ block_sample_groups[h].events =
          << DownloadedHeaderEvent(h, T0, 100, 1000, "P1"),
             SendFetchRequestEvent(h, T0 + 100000, "P1"),
             CompletedBlockFetchEvent(h, T0 + 300000, 1999, "P1"),
             AddedToCurrentChainEvent(h, T0 + 350000) >>

\* the sample of scenario 1
HappySample(h, s) ==
    /\ s.block_hash = h
    /\ s.header_delta = 50 /\ s.block_request_delta = 100
    /\ s.block_response_delta = 200 /\ s.block_adopt_delta = 50
    /\ s.block_number = 100 /\ s.slot = 1000 /\ s.block_size = 1999

\* the submits of the latest group created for hash h
PostsOf(h) ==
    { j \in 1..Len(posts) :
         posts[j].sample.block_hash = h /\ posts[j].inst = created[h] }

\* exactly one sample of the latest group of hash h was handed over, it is
\* the sample of scenario 1, the submit succeeded and the group is removed
HappyDone(h) ==
    /\ h \notin DOMAIN block_sample_groups
    /\ Cardinality(PostsOf(h)) = 1
    /\ \A j \in PostsOf(h) :
          posts[j].result = "ok" /\ HappySample(h, posts[j].sample)

ScenarioRecords(h) ==
    { DownloadedHeaderEvent(h, T0, 100, 1000, "P1"),
      SendFetchRequestEvent(h, T0 + 100000, "P1"),
      CompletedBlockFetchEvent(h, T0 + 300000, 1999, "P1"),
      AddedToCurrentChainEvent(h, T0 + 350000) }

\* C11: for every arrival order of the header, the request, the completed
\* fetch of the same peer and the adoption of a block, once all four are
\* inserted the group is complete and its request slot is that request.
C11_ReorderTolerated ==
    \A k \in DOMAIN block_sample_groups :
        LET g == block_sample_groups[k]
        IN  ( /\ Len(g.events) = 4
              /\ { g.events[i] : i \in 1..4 } = ScenarioRecords(k) )
               => /\ is_complete(g)
                  /\ g.block_requested = SendFetchRequestEvent(k, T0 + 100000, "P1")

\* the group a record is added to: the group of its hash or a new one
GroupOf(ev) ==
    IF ev.block_hash \in DOMAIN block_sample_groups
    THEN block_sample_groups[ev.block_hash]
    ELSE NewGroup(ev.block_hash, now, created[ev.block_hash] + 1)

\* C12: when a CompletedBlockFetch is inserted into a group whose audit log
\* holds no SendFetchRequest of the same peer, the group is evicted from
\* block_sample_groups in that step.
C12_CorrelationErrorEvicts ==
    [][\A ev \in MainEvents :
          (ProcessMessage(ev) /\ add_event_raises(GroupOf(ev), ev))
             => ev.block_hash \notin DOMAIN block_sample_groups']_vars

\* C13: whenever the request and completed slots of a group are both set,
\* they name the same peer endpoint.
C13_RequestPeerIsCompletedPeer ==
    \A k \in DOMAIN block_sample_groups :
        LET g == block_sample_groups[k]
        IN  (g.block_requested # NoneEv /\ g.block_completed # NoneEv)
               => g.block_requested.peer = g.block_completed.peer

\* the request slot is not the first request of the audit log: the first
\* request went to another peer than the one the block came from
C13_Witness ==
    \E k \in DOMAIN block_sample_groups :
        LET g == block_sample_groups[k]
        IN  /\ g.block_requested # NoneEv /\ g.block_completed # NoneEv
            /\ g.block_requested # _get_fetch_first(g, g.block_completed)

\* the hash of every set slot and of every record of the audit log is k
HashesAre(g, k) ==
    /\ g.block_hash = k
    /\ \A i \in 1..Len(g.events) : g.events[i].block_hash = k
    /\ g.block_header # NoneEv => g.block_header.block_hash = k
    /\ g.block_requested # NoneEv => g.block_requested.block_hash = k
    /\ g.block_completed # NoneEv => g.block_completed.block_hash = k
    /\ block_adopted(g) # NoneEv => block_adopted(g).block_hash = k

\* C14: for every group in the map, and for the group of every sample
\* handed to the submitter, each set slot and every record of the audit log
\* carries the block hash that is the group's key.
C14_GroupHashIsKey ==
    /\ \A k \in DOMAIN block_sample_groups :
          HashesAre(block_sample_groups[k], k)
    /\ dpc = "posting" => sample.block_hash = ready_groups[ready]
    /\ \A j \in 1..Len(posts) : posts[j].sample.block_hash \in Hashes

\* two groups with records in the map while a sample of one is in flight
C14_Witness ==
    /\ dpc = "posting"
    /\ \A h \in Hashes :
          h \in DOMAIN block_sample_groups
             /\ Len(block_sample_groups[h].events) >= 3

----------------------------------------------------------------------------
(* Late records: the log source repeats records of a block whose group was *)
(* submitted and removed                                                    *)

\* the block whose records are repeated
LateHash == "H1"

\* the records of that block come in pipeline order, as in Ingest
IngestFirst ==
    \E ev \in BlockEvents(LateHash) :
        /\ nev < MaxIngest /\ now <= MaxIngestNow
        /\ created[LateHash] = 0 \/ LateHash \in DOMAIN block_sample_groups
        /\ Stage(ev) = Received(ev) + 1
        /\ ProcessMessage(ev)

\* a record of the block arrives after the group of the block left the map,
\* or joins the group made by such a record; these come in any order
IngestLate ==
    \E ev \in BlockEvents(LateHash) :
        /\ created[LateHash] >= 1
        /\ IF LateHash \in DOMAIN block_sample_groups
           THEN /\ block_sample_groups[LateHash].inst >= 2
                /\ Received(ev) < MaxLate
           ELSE created[LateHash] < MaxCreated
        /\ ProcessMessage(ev)

NextLate ==
    \/ OpenLogReader
    \/ ReplayDone
    \/ IngestFirst
    \/ IngestLate
    \/ Tick
    \/ DrainTickUnset
    \/ DrainTickReplay
    \/ DrainTick
    \/ PostOk
    \/ PostRaises

SpecLate == Init /\ [][NextLate]_vars

\* the slots of g hold nothing but records of its audit log
SlotsFromLog(g) ==
    \A e \in {g.block_header, g.block_requested, g.block_completed} :
        e = NoneEv \/ \E i \in 1..Len(g.events) : g.events[i] = e

\* C15: a group that was submitted and removed is never resurrected: the
\* record of its hash that arrives later makes a fresh group, whose audit
\* log holds that record alone, whose slots hold nothing from before the
\* removal and whose created_at is the time that record is processed
C15_NoResurrection ==
    [][\A h \in Hashes :
          (created[h] >= 1 /\ h \notin DOMAIN block_sample_groups
             /\ h \in DOMAIN block_sample_groups')
          => LET g == block_sample_groups'[h]
             IN  /\ Len(g.events) = 1
                 /\ g.events[1] \in BlockEvents(h)
                 /\ SlotsFromLog(g)
                 /\ g.block_requested = NoneEv
                 /\ g.created_at = now
                 /\ g.inst = created[h] + 1
                 /\ \E j \in 1..Len(posts) :
                       /\ posts[j].sample.block_hash = h
                       /\ posts[j].result = "ok"
                       /\ posts[j].inst = created[h]]_vars

\* a second group of a submitted block exists and has received two records
C15_Witness ==
    \E h \in Hashes :
        /\ created[h] = 2
        /\ h \in DOMAIN block_sample_groups
        /\ block_sample_groups[h].inst = 2
        /\ Len(block_sample_groups[h].events) = 2
        /\ \E j \in 1..Len(posts) :
              posts[j].sample.block_hash = h /\ posts[j].result = "ok"

\* the hard ceiling on the age of a group, in seconds: any value above
\* min_age that the clock of the model can pass
HardCeiling == MaxMinAge + 1

\* an incomplete group older than the hard ceiling
Overdue(g, t) ==
    /\ ~is_complete(g)
    /\ t - g.created_at > HardCeiling * TicksPerSec

\* C16: no incomplete group older than the hard ceiling remains in the map
\* after a drain tick
C16_IncompleteEvictedAtCeiling ==
    [][DrainTick => \A h \in DOMAIN block_sample_groups' :
                       ~Overdue(block_sample_groups'[h], now')]_vars

----------------------------------------------------------------------------
(* Peers: EventHandler.peer_event and the socket reconciliation            *)

\* remote endpoints (remote_addr, remote_port) and the endpoint of the node
Remotes == {<<"10.0.0.1", 3001>>, <<"10.0.0.2", 3001>>}
Local == <<"172.0.0.1", 3001>>
NoRemote == <<"", 0>>

\* the states a peer event carries (STATES) and its directions
EventStates == {"Cold", "Warm", "Hot"}
Directions == {"Inbound", "Outbound"}

\* a PeerEvent object; id is the identity of the object
PeerEvent(id, at, d, st, r) ==
    [id |-> id, at |-> at, direction |-> d, state |-> st, remote |-> r,
     local |-> Local]

\* the expression event.key: key is a plain method of PeerEvent and is not
\* called, so the value is the method bound to that event object; two bound
\* methods are equal, and hash alike, only when bound to the same object
key(ev) == [kind |-> "method", obj |-> ev.id, remote |-> NoRemote]

\* the tuple (remote_addr, remote_port) as a dict key
TupleKey(r) == [kind |-> "tuple", obj |-> 0, remote |-> r]

\* Peer(...): the fields of a peer
Peer(r, l, sin, sout, t) ==
    [remote |-> r, local |-> l, state_inbound |-> sin, state_outbound |-> sout,
     last_updated |-> t]

\* EventHandler.peer_event at time t: the states of a Peer made here are the
\* defaults of the class
peer_event(ps, ev, t) ==
    LET k == key(ev)
        p == IF k \in DOMAIN ps THEN ps[k]
             ELSE Peer(ev.remote, ev.local, "Unconnected", "Unconnected", t)
        q == [p EXCEPT
                !.state_inbound =
                    IF ev.direction = "Inbound" THEN ev.state ELSE @,
                !.state_outbound =
                    IF ev.direction = "Outbound" THEN ev.state ELSE @,
                !.last_updated = t]
    IN  [x \in DOMAIN ps \cup {k} |-> IF x = k THEN q ELSE ps[x]]

\* _process_message for one live record of a peer namespace
ProcessPeerMessage(ev) ==
    /\ app = "running" /\ ipc = "live"
    /\ peers' = peer_event(peers, ev, now)
    /\ pevents' = Append(pevents, ev)
    /\ UNCHANGED <<app, ipc, replaying, block_sample_groups, order, now, nev,
                   created, min_age, dpc, ready_groups, ready, sample, posts,
                   pg, pres, connections, sup, sampled>>

\* the log source of peer records: each record is a new event object, logged
\* in the tick it is processed in or in the tick before
PeerIngest ==
    \E d \in Directions, st \in EventStates, r \in Remotes,
       at \in {a \in {now - 1, now} : a >= 0} :
        /\ Len(pevents) < MaxPeerEvents /\ now <= MaxPeerNow
        /\ ProcessPeerMessage(PeerEvent(Len(pevents) + 1, at, d, st, r))

\* PeerListener.update_peers_from_connections for the remote endpoints S of
\* the connections: a Peer in state Unknown for every new key, then every
\* key that is not the key of a connection is deleted
update_peers_from_connections(ps, S, t) ==
    LET connection_keys == { TupleKey(r) : r \in S }
    IN  [k \in connection_keys |->
            IF k \in DOMAIN ps THEN ps[k]
            ELSE Peer(k.remote, Local, "Unknown", "Unknown", t)]

\* one round of update_peers_connections: S are the remote endpoints of the
\* ESTABLISHED sockets on the listen port; connections records the rounds
Reconcile(S) ==
    /\ app = "running"
    /\ Len(connections) < MaxReconcile
    /\ connections' = Append(connections, S)
    /\ peers' = IF S # {}
                THEN update_peers_from_connections(peers, S, now)
                ELSE peers
    /\ UNCHANGED <<app, ipc, replaying, block_sample_groups, order, now, nev,
                   created, min_age, dpc, ready_groups, ready, sample, posts,
                   pg, pres, pevents, sup, sampled>>

update_peers_connections == \E S \in SUBSET Remotes : Reconcile(S)

\* time passes while peer records are read
PeerTick == now < MaxPeerNow /\ Tick

NextPeers ==
    \/ OpenLogReader
    \/ ReplayDone
    \/ PeerIngest
    \/ update_peers_connections
    \/ PeerTick

SpecPeers == Init /\ [][NextPeers]_vars

----------------------------------------------------------------------------
(* Properties of the peer map                                               *)

\* the greatest member of a non-empty set of integers
MaxOf(S) == CHOOSE x \in S : \A y \in S : y <= x

\* the state of the last peer event applied for remote r in direction d,
\* Unknown if there was none
LastApplied(d, r) ==
    LET idx == { i \in 1..Len(pevents) :
                    pevents[i].direction = d /\ pevents[i].remote = r }
    IN  IF idx = {} THEN "Unknown" ELSE pevents[MaxOf(idx)].state

\* the entries of the peer map ps that hold a peer of remote r
EntriesOf(ps, r) == { k \in DOMAIN ps : ps[k].remote = r }

\* C17: for every peer of the peer map, state_inbound is the state of the
\* last applied Inbound event for its remote endpoint, Unknown if there was
\* none, and state_outbound likewise for Outbound events (stated for the
\* states reached by peer events alone, before any reconciliation)
C17_StatesAreLastApplied ==
    connections = << >> =>
        \A k \in DOMAIN peers :
            /\ peers[k].state_inbound = LastApplied("Inbound", peers[k].remote)
            /\ peers[k].state_outbound = LastApplied("Outbound", peers[k].remote)

\* C18: applying a peer event with timestamp at leaves a peer of its remote
\* endpoint whose last_updated is the maximum of at and the last_updated
\* the remote endpoint had before
C18_LastUpdatedIsMaxAt ==
    [][Len(pevents') > Len(pevents) =>
          LET ev == pevents'[Len(pevents')]
              before == { peers[k].last_updated : k \in EntriesOf(peers, ev.remote) }
          IN  \E k \in EntriesOf(peers', ev.remote) :
                  peers'[k].last_updated = MaxOf(before \cup {ev.at})]_vars

\* C19: every entry of the peer map is keyed by the tuple (remote_addr,
\* remote_port) of the peer it holds, so no remote endpoint has two entries
C19_KeyIsRemoteEndpoint ==
    /\ \A k \in DOMAIN peers : k = TupleKey(peers[k].remote)
    /\ \A r \in Remotes : Cardinality(EntriesOf(peers, r)) <= 1

\* C20: after a reconciliation round with socket set S, empty or not, the
\* key set of the peer map is S
C20_KeysAreSockets ==
    [][Len(connections') > Len(connections) =>
          DOMAIN peers' =
              { TupleKey(r) : r \in connections'[Len(connections')] }]_vars

----------------------------------------------------------------------------
(* Properties of the slots of a group                                       *)

\* the first record of audit log evs whose type is in types, NoneEv if none
FirstOfTypes(evs, types) ==
    LET idx == { i \in 1..Len(evs) : evs[i].type \in types }
    IN  IF idx = {} THEN NoneEv
        ELSE evs[CHOOSE i \in idx : \A j \in idx : i <= j]

\* the four event slots of a group
Slots(g) == <<g.block_header, g.block_requested, g.block_completed,
              block_adopted(g)>>

\* C28: the event slots of a group are write-once: a slot that is set is
\* not changed by a later record of the hash; header is the first
\* DownloadedHeader of the audit log, completed the first
\* CompletedBlockFetch, adopted the first AddedToCurrentChain or
\* SwitchedToAFork
C28_SlotsWriteOnce ==
    [][\A k \in DOMAIN block_sample_groups' :
          LET g2 == block_sample_groups'[k]
          IN  /\ g2.block_header = FirstOfTypes(g2.events, {"DownloadedHeader"})
              /\ g2.block_completed =
                     FirstOfTypes(g2.events, {"CompletedBlockFetch"})
              /\ block_adopted(g2) =
                     FirstOfTypes(g2.events, {"AddedToCurrentChain",
                                              "SwitchedToAFork"})
              /\ k \in DOMAIN block_sample_groups =>
                    \A i \in 1..4 :
                        Slots(block_sample_groups[k])[i] # NoneEv
                           => Slots(g2)[i] = Slots(block_sample_groups[k])[i]]_vars

\* a group that received a second header, a second completion and both
\* kinds of adoption record after its slots were set
C28_Witness ==
    \E k \in DOMAIN block_sample_groups :
        LET g == block_sample_groups[k]
            n(types) == Cardinality({ i \in 1..Len(g.events) :
                                         g.events[i].type \in types })
        IN  /\ g.block_header # NoneEv
            /\ n({"DownloadedHeader"}) = 2
            /\ \/ n({"CompletedBlockFetch"}) = 2
               \/ n({"AddedToCurrentChain", "SwitchedToAFork"}) = 2

\* C29: block_number and slot of a group are those of its header slot
\* event and block_size is that of its completed slot event, whatever
\* values these events carry
C29_FieldsFromSlotEvents ==
    \A k \in DOMAIN block_sample_groups :
        LET g == block_sample_groups[k]
        IN  /\ g.block_header # NoneEv
               => /\ g.block_number = g.block_header.block_number
                  /\ g.slot = g.block_header.slot
            /\ g.block_completed # NoneEv
               => g.block_size = g.block_completed.block_size

\* C30: slot_time of a group whose slot is set is the start of the network
\* plus the current slot of the group (in microseconds since that start:
\* the slot times one second)
C30_SlotTimeFollowsSlot ==
    \A k \in DOMAIN block_sample_groups :
        LET g == block_sample_groups[k]
        IN  g.slot # NoneInt => g.slot_time = g.slot * 1000000

----------------------------------------------------------------------------
(* The log reader: JournalCtlLogReader.read_messages                        *)

\* what a line of the subprocess is to the reader: text that json.loads
\* accepts, text it rejects (an empty line too), or a line longer than the
\* limit of the stream (limit=10000000 in connect)
LineKinds == {"json", "malformed", "overlong"}

\* the inputs: the lines the log source writes before EOF
LineSeqs == UNION { [1..n -> LineKinds] : n \in 0..MaxLines }

\* the reader before its first readline(): pg is the source, pres the
\* generator (next line to read, numbers of the lines yielded, status)
InitReader ==
    /\ MainInit
    /\ SupIdle
    /\ pg \in { [lines |-> l] : l \in LineSeqs }
    /\ pres = [pos |-> 1, yielded |-> << >>, status |-> "reading"]

\* one round of the loop of read_messages: readline() returns b"" at EOF
\* and the loop ends; it raises ValueError for a line over the limit, which
\* nothing in read_messages catches; json.loads either gives the message
\* to yield or raises JSONDecodeError, which is printed
ReadLine ==
    /\ pres.status = "reading"
    /\ pres' =
         IF pres.pos > Len(pg.lines)
         THEN [pres EXCEPT !.status = "eof"]
         ELSE IF pg.lines[pres.pos] = "overlong"
         THEN [pres EXCEPT !.status = "raised"]
         ELSE IF pg.lines[pres.pos] = "json"
         THEN [pres EXCEPT !.pos = @ + 1,
                           !.yielded = Append(@, pres.pos)]
         ELSE [pres EXCEPT !.pos = @ + 1]
    /\ UNCHANGED <<app, ipc, replaying, block_sample_groups, order, now, nev, created,
                   min_age, dpc, ready_groups, ready, sample, posts, pg,
                   peers, pevents, connections, sup, sampled>>

NextReader == ReadLine

SpecReader == InitReader /\ [][NextReader]_vars

\* the numbers of the lines of l that parse as JSON, in source order
ParsedLines(l) == SelectSeq([i \in 1..Len(l) |-> i], LAMBDA i : l[i] = "json")

\* C25: for every finite sequence of lines read_messages never raises, and
\* when it has ended it has yielded exactly the lines that parse as JSON,
\* in source order
C25_YieldsParsedLines ==
    /\ pres.status # "raised"
    /\ pres.status = "eof" => pres.yielded = ParsedLines(pg.lines)

(***************************************************************************)
(* Submit failures                                                         *)
(***************************************************************************)

\* the exception that leaves post_block_sample for a result of the request:
\* raise_for_status turns every error status into the same NetworkError; a
\* timeout or a refused connection leaves self._client.request, which stands
\* outside the try block, as the httpx exception
RaisedError(r) ==
    CASE r = "ok" -> "none"
      [] r \in {"4xx", "5xx"} -> "NetworkError"
      [] r = "timeout" -> "httpx.TimeoutException"
      [] r = "connect" -> "httpx.ConnectError"

\* C26: a permanent submit failure (HTTP 4xx) is reported by an error other
\* than the one of the retryable failures (5xx, timeout, no connection), and
\* the drain then removes the group from block_sample_groups and keeps
\* running
C26_PermanentFailureEvicts ==
    [][PostFails("4xx")
          => /\ RaisedError("4xx") \notin {RaisedError(r) : r \in Transient}
             /\ sample.block_hash \notin DOMAIN block_sample_groups'
             /\ app' = "running"]_vars

----------------------------------------------------------------------------
(* Supervised run: records that cannot be converted, the end of the log    *)
(* source, a shutdown signal and the close of the subprocess (SpecSup);    *)
(* a replay phase that yields records, then the records of one block       *)
(* (SpecReplay)                                                            *)

\* records the replay yields at most
MaxReplay == 1
\* unconvertible records dropped at most
MaxDropped == 1
\* records of an unregistered namespace at most
MaxIgnored == 1

InitSup ==
    /\ MainInit
    /\ PureIdle
    /\ sup = NewSup

\* variant: a replayed record is processed like a live one
ReplayMessage_acts ==
    \E ev \in BlockEvents(LateHash) :
        /\ app = "running" /\ ipc = "replay"
        /\ sup.message_count < MaxReplay
        /\ Stage(ev) = Received(ev) + 1
        /\ sup' = [sup EXCEPT !.message_count = @ + 1]
        /\ block_sample_groups' =
              blocksample_event(block_sample_groups, ev, now,
                                created[ev.block_hash] + 1)
        /\ order' = IF ev.block_hash \in DOMAIN block_sample_groups
                    THEN order ELSE Append(order, ev.block_hash)
        /\ created' = IF ev.block_hash \in DOMAIN block_sample_groups
                      THEN created
                      ELSE [created EXCEPT ![ev.block_hash] = @ + 1]
        /\ UNCHANGED <<app, ipc, replaying, now, nev, min_age, dpc,
                       ready_groups, ready, sample, posts, pg, pres,
                       peers, pevents, connections, sampled>>

\* one message of the replay: the call of _process_message is commented
\* out, the message is counted
ReplayMessage ==
    /\ app = "running" /\ ipc = "replay"
    /\ sup.message_count < MaxReplay
    /\ sup' = [sup EXCEPT !.message_count = @ + 1]
    /\ UNCHANGED <<app, ipc, replaying, block_sample_groups, order, now, nev,
                   created, min_age, dpc, ready_groups, ready, sample, posts,
                   pg, pres, peers, pevents, connections, sampled>>

\* event_processor has ended in s2: an error makes the TaskGroup cancel the
\* other tasks
AfterEnd(s2) ==
    IF s2.tasks["event_processor"] = "failed" THEN CancelSiblings(s2) ELSE s2

AppAfterEnd(s2) ==
    IF s2.tasks["event_processor"] = "failed" THEN "stopped" ELSE app

\* journalctl ends by itself
ProcessExits ==
    /\ app = "running"
    /\ sup.tasks["event_processor"] = "running"
    /\ sup.process = "running"
    /\ sup' = [sup EXCEPT !.process = "exited"]
    /\ UNCHANGED <<app, ipc, replaying, block_sample_groups, order, now, nev,
                   created, min_age, dpc, ready_groups, ready, sample, posts,
                   pg, pres, peers, pevents, connections, sampled>>

\* readline() returns b"": read_messages ends, process_events leaves
\* "async with" and returns
Eof ==
    /\ app = "running" /\ ipc = "live"
    /\ sup.tasks["event_processor"] = "running"
    /\ sup.process = "exited"
    /\ ipc' = "closed"
    /\ \E s2 \in EnterClose(sup, "done", now) :
          /\ sup' = AfterEnd(s2)
          /\ app' = AppAfterEnd(s2)
    /\ UNCHANGED <<replaying, block_sample_groups, order, now, nev,
                   created, min_age, dpc, ready_groups, ready, sample, posts,
                   pg, pres, peers, pevents, connections, sampled>>

\* records of a registered namespace that cannot be converted
Unconvertible ==
    {"peer_no_connectionId", "chain_no_headers",
     "status_unparsable", "status_illegal_ip"}

\* what make_event / handle_event raise for such a record: None.get(...) in
\* the before-validator of PeerEvent, EventError of block_hash, ValueError
\* of parse_statuschange_data turned into ValidationError by pydantic
ConversionError(k) ==
    CASE k = "peer_no_connectionId" -> "AttributeError"
      [] k = "chain_no_headers" -> "EventError"
      [] OTHER -> "ValidationError"

\* whether the error stays in _process_message: EventError is logged; a
\* ValidationError runs into breakpoint() and is raised again as
\* InvalidEventDataError, a class errors.py does not define: both outcomes;
\* every other error is raised again
Caught(e) ==
    CASE e = "EventError" -> {TRUE}
      [] e = "ValidationError" -> {TRUE, FALSE}
      [] OTHER -> {FALSE}

\* _process_message for a record that cannot be converted
IngestUnconvertible ==
    \E k \in Unconvertible : \E c \in Caught(ConversionError(k)) :
        /\ app = "running" /\ ipc = "live"
        /\ sup.tasks["event_processor"] = "running"
        /\ IF c
           THEN /\ sup.dropped < MaxDropped
                /\ sup' = [sup EXCEPT !.dropped = @ + 1]
                /\ UNCHANGED <<app, ipc>>
           ELSE /\ ipc' = "closed"
                /\ \E s2 \in EnterClose(sup, "failed", now) :
                      /\ sup' = AfterEnd(s2)
                      /\ app' = AppAfterEnd(s2)
        /\ UNCHANGED <<replaying, block_sample_groups, order, now, nev,
                       created, min_age, dpc, ready_groups, ready, sample,
                       posts, pg, pres, peers, pevents, connections, sampled>>

\* the keys of EventHandler.registered_namespaces
registered_namespaces ==
    {"BlockFetch.Client.CompletedBlockFetch",
     "BlockFetch.Client.SendFetchRequest",
     "ChainDB.AddBlockEvent.AddedToCurrentChain",
     "ChainDB.AddBlockEvent.SwitchedToAFork",
     "ChainSync.Client.DownloadedHeader",
     "Net.InboundGovernor.Local.DemotedToColdRemote",
     "Net.InboundGovernor.Local.DemotedToWarmRemote",
     "Net.InboundGovernor.Local.PromotedToHotRemote",
     "Net.InboundGovernor.Local.PromotedToWarmRemote",
     "Net.InboundGovernor.Local.InboundGovernorCounters",
     "Net.InboundGovernor.Remote.PromotedToHotRemote",
     "Net.InboundGovernor.Remote.PromotedToWarmRemote",
     "Net.InboundGovernor.Remote.DemotedToColdRemote",
     "Net.InboundGovernor.Remote.DemotedToWarmRemote",
     "Net.InboundGovernor.Remote.InboundGovernorCounters",
     "Net.PeerSelection.Actions.StatusChanged"}

\* the values of message.get("ns") in the log: the registered namespaces,
\* namespaces the node logs that are not registered, and None for a record
\* without "ns"
Namespaces ==
    registered_namespaces
       \cup {"Net.PeerSelection.Actions.ConnectionError",
             "Net.PeerSelection.Selection.DemoteHotDone",
             "ChainSync.Client.ValidatedHeader",
             "None"}

\* variant: the record is handed to make_event, whose error for an
\* unregistered namespace is not an EventError
IngestUnregistered_raises ==
    \E ns \in Namespaces :
        /\ app = "running" /\ ipc = "live"
        /\ sup.tasks["event_processor"] = "running"
        /\ ns \notin registered_namespaces
        /\ sup.ignored < MaxIgnored
        /\ ipc' = "closed"
        /\ \E s2 \in EnterClose([sup EXCEPT !.ignored = @ + 1], "failed", now) :
              /\ sup' = AfterEnd(s2)
              /\ app' = AppAfterEnd(s2)
        /\ UNCHANGED <<replaying, block_sample_groups, order, now, nev,
                       created, min_age, dpc, ready_groups, ready, sample,
                       posts, pg, pres, peers, pevents, connections, sampled>>

\* _process_message for a record whose namespace the handler has not
\* registered: it returns before make_event
IngestUnregistered ==
    \E ns \in Namespaces :
        /\ app = "running" /\ ipc = "live"
        /\ sup.tasks["event_processor"] = "running"
        /\ ns \notin registered_namespaces
        /\ sup.ignored < MaxIgnored
        /\ sup' = [sup EXCEPT !.ignored = @ + 1]
        /\ UNCHANGED <<app, ipc, replaying, block_sample_groups, order, now,
                       nev, created, min_age, dpc, ready_groups, ready,
                       sample, posts, pg, pres, peers, pevents, connections, sampled>>

\* SIGINT or SIGTERM: signal_handler sets shutdown_event,
\* _run_blockperf_app cancels app_task, the TaskGroup cancels its tasks; a
\* TaskGroup that is already ending its tasks cancels nothing again
Signal ==
    /\ ~sup.shutdown_event /\ ~sup.returned
    /\ IF app = "running"
       THEN /\ app' = "stopped"
            /\ sup' \in CancelEventProcessor(
                           CancelSiblings([sup EXCEPT !.shutdown_event = TRUE]),
                           now)
       ELSE /\ sup' = [sup EXCEPT !.shutdown_event = TRUE]
            /\ UNCHANGED app
    /\ UNCHANGED <<ipc, replaying, block_sample_groups, order, now, nev,
                   created, min_age, dpc, ready_groups, ready, sample, posts,
                   pg, pres, peers, pevents, connections, sampled>>

\* the subprocess ends after SIGTERM
TermExit ==
    /\ sup.process = "terminating"
    /\ sup' = [sup EXCEPT !.process = "terminated"]
    /\ UNCHANGED <<app, ipc, replaying, block_sample_groups, order, now, nev,
                   created, min_age, dpc, ready_groups, ready, sample, posts,
                   pg, pres, peers, pevents, connections, sampled>>

\* time passes while close() waits for the subprocess
CloseTick ==
    /\ app = "stopped"
    /\ sup.tasks["event_processor"] = "closing"
    /\ sup.process = "terminating"
    /\ now < sup.term_at + CloseGrace
    /\ now' = now + 1
    /\ UNCHANGED <<app, ipc, replaying, block_sample_groups, order, nev,
                   created, min_age, dpc, ready_groups, ready, sample, posts,
                   pg, pres, peers, pevents, connections, sup, sampled>>

\* close() has ended in s2 and event_processor with it
CloseEnds(s2) ==
    /\ sup' = AfterEnd([s2 EXCEPT !.tasks["event_processor"] = s2.exit_as])
    /\ app' = IF s2.exit_as = "failed" THEN "stopped" ELSE app
    /\ UNCHANGED <<ipc, replaying, block_sample_groups, order, now, nev,
                   created, min_age, dpc, ready_groups, ready, sample, posts,
                   pg, pres, peers, pevents, connections, sampled>>

\* wait_for(self.process.wait(), timeout=1.0) returns
CloseWaitReturns ==
    /\ sup.tasks["event_processor"] = "closing"
    /\ sup.process = "terminated"
    /\ CloseEnds([sup EXCEPT !.process = "None", !.closed_by = "terminate"])

\* the wait times out: TimeoutError, self.process.kill()
CloseTimeout ==
    /\ sup.tasks["event_processor"] = "closing"
    /\ sup.process = "terminating"
    /\ now - sup.term_at >= CloseGrace
    /\ sup' = [sup EXCEPT !.process = "killed", !.kill_at = now]
    /\ UNCHANGED <<app, ipc, replaying, block_sample_groups, order, now, nev,
                   created, min_age, dpc, ready_groups, ready, sample, posts,
                   pg, pres, peers, pevents, connections, sampled>>

\* the wait after the kill returns
CloseKillWait ==
    /\ sup.tasks["event_processor"] = "closing"
    /\ sup.process = "killed"
    /\ CloseEnds([sup EXCEPT !.process = "None", !.closed_by = "kill"])

\* the TaskGroup has seen all its tasks end: start() returns,
\* _run_blockperf_app runs app.stop(), whose gather finds every task done
StopReturns ==
    /\ app = "stopped"
    /\ ~sup.returned
    /\ AllDone(sup)
    /\ sup' = [sup EXCEPT !.returned = TRUE]
    /\ UNCHANGED <<app, ipc, replaying, block_sample_groups, order, now, nev,
                   created, min_age, dpc, ready_groups, ready, sample, posts,
                   pg, pres, peers, pevents, connections, sampled>>

NextSup ==
    \/ OpenLogReader
    \/ ReplayDone
    \/ IngestUnconvertible
    \/ IngestUnregistered
    \/ ProcessExits
    \/ Eof
    \/ Tick
    \/ DrainTickUnset
    \/ DrainTickReplay
    \/ DrainTick
    \/ Signal
    \/ TermExit
    \/ CloseTick
    \/ CloseWaitReturns
    \/ CloseTimeout
    \/ CloseKillWait
    \/ StopReturns

SpecSup == InitSup /\ [][NextSup]_vars

NextReplay ==
    \/ OpenLogReader
    \/ ReplayMessage
    \/ ReplayDone
    \/ IngestFirst
    \/ Tick
    \/ DrainTickUnset
    \/ DrainTickReplay
    \/ DrainTick
    \/ PostOk
    \/ PostRaises

SpecReplay == InitSup /\ [][NextReplay]_vars

SupTypeOK ==
    /\ sup.process \in {"running", "exited", "terminating", "terminated",
                        "killed", "None"}
    /\ \A t \in StartedTasks :
          sup.tasks[t] \in {"running", "closing", "done", "failed", "cancelled"}

----------------------------------------------------------------------------
(* Properties of the supervised run *)

Activities ==
    {"event_processor", "block_sender", "update_peers_connections",
     "stats_printer"}

\* C21: the supervisor starts and owns all four long-running activities,
\* socket reconciliation among them: while the application runs each of
\* them is a task of the TaskGroup
C21_FourActivitiesStarted ==
    app = "running" => \A a \in Activities : a \in DOMAIN sup.tasks

\* C22: when a supervised activity has ended other than by cancellation,
\* by an error or by returning, every other activity has been cancelled:
\* none of them is running and the application is stopping
C22_AnyExitStopsAll ==
    (\E t \in StartedTasks : sup.tasks[t] \in {"done", "failed"})
       => /\ app = "stopped"
          /\ \A t \in StartedTasks : sup.tasks[t] # "running"

\* C24: a record of a registered namespace that cannot be converted is
\* dropped: both maps stay as they are, ingestion goes on with the next
\* record, and neither the ingestion task nor the application ends
C24_UnconvertibleDropped ==
    [][IngestUnconvertible
          => /\ block_sample_groups' = block_sample_groups
             /\ peers' = peers
             /\ ipc' = "live"
             /\ sup'.tasks["event_processor"] = "running"
             /\ app' = "running"]_vars

\* the subprocess has ended or the reader has let go of it
Closed(p) == p \in {"None", "exited", "terminated"}

\* C27: after a shutdown signal every supervised activity is cancelled (none
\* is running any more), the shutdown path returns only after all tasks
\* are done, and by then the subprocess of the log reader is closed; SIGKILL
\* is sent only to a subprocess that has not ended within the grace period
\* after SIGTERM
C27_ShutdownClosesAll ==
    /\ sup.shutdown_event
          => \A t \in StartedTasks : sup.tasks[t] # "running"
    /\ (sup.shutdown_event /\ sup.returned)
          => /\ AllDone(sup)
             /\ Closed(sup.process)
    /\ (sup.process = "killed" \/ sup.closed_by = "kill")
          => sup.kill_at >= sup.term_at + CloseGrace

----------------------------------------------------------------------------
(* Further properties of the peer map *)

\* C31: a reconciliation round with socket set S changes nothing but
\* membership: a peer of the map whose remote endpoint is in S is still in
\* the map with the same state_inbound, state_outbound and local endpoint;
\* a peer the round has inserted has both states Unknown; a peer whose
\* remote endpoint is not in S is no longer in the map
C31_ReconcileChangesMembershipOnly ==
    [][Len(connections') > Len(connections) =>
          LET S == connections'[Len(connections')]
          IN  /\ \A k \in DOMAIN peers :
                    peers[k].remote \in S
                       => \E k2 \in EntriesOf(peers', peers[k].remote) :
                             /\ peers'[k2].state_inbound = peers[k].state_inbound
                             /\ peers'[k2].state_outbound = peers[k].state_outbound
                             /\ peers'[k2].local = peers[k].local
              /\ \A k2 \in DOMAIN peers' :
                    EntriesOf(peers, peers'[k2].remote) = {}
                       => /\ peers'[k2].state_inbound = "Unknown"
                          /\ peers'[k2].state_outbound = "Unknown"
              /\ \A k \in DOMAIN peers :
                    peers[k].remote \notin S
                       => EntriesOf(peers', peers[k].remote) = {}]_vars

----------------------------------------------------------------------------
(* Exit code of the run command *)

\* the task outcomes the handlers of Blockperf.start take from the
\* exception group of the TaskGroup: "except* asyncio.CancelledError" the
\* cancellations, "except* Exception" the errors; neither raises again
ExceptStar == {"cancelled", "failed"}

\* the tasks whose error leaves Blockperf.start and, through "await
\* app_task", _run_blockperf_app and asyncio.run
Escaping(s) == { t \in StartedTasks : s.tasks[t] \in {"failed"} \ ExceptStar }

\* run_app_callback: sys.exit(1) in its except clauses, otherwise the
\* callback returns and the command ends with code 0
exit_code(s) == IF Escaping(s) # {} THEN 1 ELSE 0

\* C32: when a supervised activity has failed with an uncaught error the
\* run command exits with code 1
C32_FailureExitsWithOne ==
    (sup.returned /\ \E t \in StartedTasks : sup.tasks[t] = "failed")
       => exit_code(sup) = 1

\* C33: a record whose namespace is not registered is dropped without
\* effect: _process_message changes neither block_sample_groups nor peers,
\* raises nothing, and ingestion and the application go on
C33_UnregisteredDropped ==
    [][sup'.ignored > sup.ignored
          => /\ block_sample_groups' = block_sample_groups
             /\ peers' = peers
             /\ ipc' = "live"
             /\ sup'.tasks = sup.tasks
             /\ sup'.process = sup.process
             /\ app' = "running"]_vars

\* a record of an unregistered namespace has been read and ingestion is
\* still in its live loop
C33_Witness ==
    /\ sup.ignored >= 1
    /\ app = "running" /\ ipc = "live"
    /\ sup.tasks["event_processor"] = "running"

----------------------------------------------------------------------------
(* Backfill of unknown peers: the search window of update_peers_unknown.   *)
(* pres is the Blockperf object as that task sees it: since_hours and the  *)
(* number of passes made                                                   *)

\* growth of the window per pass and its cap, in hours
SinceStep == 12
SinceCap == 2000
\* passes of the loop at most
MaxPasses == 170

InitUnknown ==
    /\ MainInit
    /\ SupIdle
    /\ pg = NoneEv
    /\ pres = [since_hours |-> 0, passes |-> 0]

\* one pass of the loop of update_peers_unknown: the window is moved before
\* the peers are searched
UnknownPass ==
    /\ pres.passes < MaxPasses
    /\ pres' = [since_hours |-> IF pres.since_hours < SinceCap
                                THEN pres.since_hours + SinceStep
                                ELSE SinceCap,
                passes |-> pres.passes + 1]
    /\ UNCHANGED <<app, ipc, replaying, block_sample_groups, order, now, nev,
                   created, min_age, dpc, ready_groups, ready, sample, posts,
                   pg, peers, pevents, connections, sup, sampled>>

NextUnknown == UnknownPass

SpecUnknown == InitUnknown /\ [][NextUnknown]_vars

\* C34: the search window since_hours starts at 0, grows by 12 per pass and
\* never exceeds the cap of 2000: in every state 0 <= since_hours <= 2000
C34_SinceHoursCapped ==
    /\ 0 <= pres.since_hours
    /\ pres.since_hours <= SinceCap

----------------------------------------------------------------------------
(* StatusChanged records: PeerEvent.parse_statuschange_data and the        *)
(* handling of the event it makes.  pres counts the records handled and    *)
(* keeps the last one with its outcome                                      *)

\* StatusChanged records handled at most
MaxStatus == 2

\* the values of PeerState and of PeerStateTransition
PeerState == {"Unknown", "Unconnected", "Cold", "Warm", "Hot", "Cooling"}
PeerStateTransition ==
    {<<"Cold", "Warm">>, <<"Warm", "Hot">>, <<"Warm", "Cooling">>,
     <<"Hot", "Warm">>, <<"Hot", "Cooling">>, <<"Cooling", "Cold">>}

\* the words a peerStatusChangeType is made of here, <From>To<To>, and what
\* follows them: "(Just ..) ..", "(ConnectionId {..})" or neither
Words == {"Cold", "Warm", "Hot", "Cooling", "Idle"}
Forms == {"Just", "ConnectionId", "neither"}
StatusChangeTypes ==
    { [from |-> f, to |-> t, form |-> fm, remote |-> r] :
        f \in Words, t \in Words, fm \in Forms, r \in Remotes }

\* parse_statuschange_data: (\w+)To(\w+) matches any pair of words; the
\* string has to carry Just or ConnectionId and the addresses; the state of
\* the event is the second word, its direction Outbound
parse_statuschange_data(psct) ==
    IF psct.form = "neither"
    THEN [error |-> "ValueError"]
    ELSE [error |-> "none", state |-> psct.to, direction |-> "Outbound",
          remote |-> psct.remote, local |-> Local]

InitStatus ==
    /\ MainInit
    /\ SupIdle
    /\ pg = NoneEv
    /\ pres = [n |-> 0, psct |-> NoneEv, outcome |-> "none"]

\* _process_message for one live StatusChanged record.  A ValueError of the
\* before-validator reaches make_event as ValidationError.  peer_event adds
\* the Peer before PeerState(event.state) is evaluated, and the ValueError
\* of PeerState(...) for a word that is no state ends process_events
StatusChanged ==
    \E psct \in StatusChangeTypes :
        LET data == parse_statuschange_data(psct)
            id == Len(pevents) + 1
            k == key([id |-> id])
        IN  /\ app = "running" /\ ipc = "live"
            /\ pres.n < MaxStatus
            /\ IF data.error # "none"
               THEN \E c \in Caught("ValidationError") :
                      /\ pres' = [n |-> pres.n + 1, psct |-> psct,
                                  outcome |-> "rejected"]
                      /\ app' = IF c THEN app ELSE "stopped"
                      /\ ipc' = IF c THEN ipc ELSE "closed"
                      /\ UNCHANGED <<peers, pevents>>
               ELSE IF data.state \notin PeerState
               THEN /\ pres' = [n |-> pres.n + 1, psct |-> psct,
                                outcome |-> "raised"]
                    /\ peers' = [x \in DOMAIN peers \cup {k} |->
                                   IF x = k
                                   THEN Peer(data.remote, data.local,
                                             "Unconnected", "Unconnected", now)
                                   ELSE peers[x]]
                    /\ app' = "stopped"
                    /\ ipc' = "closed"
                    /\ UNCHANGED pevents
               ELSE LET ev == PeerEvent(id, now, data.direction, data.state,
                                        data.remote)
                    IN  /\ pres' = [n |-> pres.n + 1, psct |-> psct,
                                    outcome |-> "applied"]
                        /\ peers' = peer_event(peers, ev, now)
                        /\ pevents' = Append(pevents, ev)
                        /\ UNCHANGED <<app, ipc>>
            /\ UNCHANGED <<replaying, block_sample_groups, order, now, nev,
                           created, min_age, dpc, ready_groups, ready, sample,
                           posts, pg, connections, sup, sampled>>

NextStatus ==
    \/ OpenLogReader
    \/ ReplayDone
    \/ StatusChanged

SpecStatus == InitStatus /\ [][NextStatus]_vars

\* C35: a StatusChanged record whose transition is not one of ColdToWarm,
\* WarmToHot, WarmToCooling, HotToWarm, HotToCooling, CoolingToCold is
\* rejected and leaves the peer map as it was
C35_OnlyListedTransitions ==
    [][pres'.n > pres.n =>
          \/ <<pres'.psct.from, pres'.psct.to>> \in PeerStateTransition
          \/ pres'.outcome = "rejected" /\ peers' = peers]_vars

----------------------------------------------------------------------------
(* The replay flag at the drain ticks                                       *)

\* C36: whenever the sleep of the drain ends and the drain reads the replay
\* flag, the flag has a value, also when the log reader is not open yet
C36_FlagDefinedAtDrainTick ==
    [][(DrainTickUnset \/ DrainTickReplay \/ DrainTick) =>
          replaying # "unset"]_vars

----------------------------------------------------------------------------
(* Peer statistics: Blockperf.print_peer_statistics.  pres is the record   *)
(* printed last                                                             *)

\* the number of peers of ps whose state in direction d is st
CountOf(ps, d, st) ==
    Cardinality({ k \in DOMAIN ps :
                    IF d = "Inbound" THEN ps[k].state_inbound = st
                    ELSE ps[k].state_outbound = st })

\* the dict stats of one pass
peer_statistics(ps) ==
    [in_cold |-> CountOf(ps, "Inbound", "Cold"),
     out_cold |-> CountOf(ps, "Outbound", "Cold"),
     in_warm |-> CountOf(ps, "Inbound", "Warm"),
     out_warm |-> CountOf(ps, "Outbound", "Warm"),
     in_hot |-> CountOf(ps, "Inbound", "Hot"),
     out_hot |-> CountOf(ps, "Outbound", "Hot"),
     in_cooling |-> CountOf(ps, "Inbound", "Cooling"),
     out_cooling |-> CountOf(ps, "Outbound", "Cooling"),
     in_unknown |-> CountOf(ps, "Inbound", "Unknown"),
     out_unknown |-> CountOf(ps, "Outbound", "Unknown"),
     total_peers |-> Cardinality(DOMAIN ps)]

\* one pass of print_peer_statistics.  The sleep of 30 seconds before a pass
\* is not followed, and no time passes between the records: a pass sees the
\* peer map as the records and the rounds handled before it have left it
print_peer_statistics ==
    /\ app = "running"
    /\ pres' = peer_statistics(peers)
    /\ UNCHANGED <<app, ipc, replaying, block_sample_groups, order, now, nev,
                   created, min_age, dpc, ready_groups, ready, sample, posts,
                   pg, peers, pevents, connections, sup, sampled>>

NextStats ==
    \/ OpenLogReader
    \/ ReplayDone
    \/ PeerIngest
    \/ update_peers_connections
    \/ print_peer_statistics

SpecStats == Init /\ [][NextStats]_vars

\* C37: in every statistics record printed, the five in_ counts add up to
\* total_peers, and so do the five out_ counts
C37_CountsAddUpToTotal ==
    pres # NoneEv =>
        /\ pres.in_cold + pres.in_warm + pres.in_hot + pres.in_cooling
             + pres.in_unknown = pres.total_peers
        /\ pres.out_cold + pres.out_warm + pres.out_hot + pres.out_cooling
             + pres.out_unknown = pres.total_peers

----------------------------------------------------------------------------
(* Ingestion while a POST is in flight: send_block_samples waits in        *)
(* api.post_block_sample, process_events goes on.  sampled is the audit    *)
(* log of the group at the time its sample was built                        *)

\* records of the block that arrive while its sample is in flight, at most
MaxInFlight == 1

\* a record of the block whose sample is in flight joins its group
IngestInFlight ==
    \E ev \in BlockEvents(LateHash) :
        /\ dpc = "posting"
        /\ ready_groups[ready] = LateHash
        /\ LateHash \in DOMAIN block_sample_groups
        /\ Len(block_sample_groups[LateHash].events) < Len(sampled) + MaxInFlight
        /\ ProcessMessage(ev)

\* the log source repeats the records of the block, in pipeline order, after
\* its group was submitted and removed
IngestAgain ==
    \E ev \in BlockEvents(LateHash) :
        /\ created[LateHash] >= 1
        /\ IF LateHash \in DOMAIN block_sample_groups
           THEN block_sample_groups[LateHash].inst >= 2
           ELSE created[LateHash] < MaxCreated
        /\ Stage(ev) = Received(ev) + 1
        /\ ProcessMessage(ev)

\* time passes, long enough for a second group of the block to get ready
MaxFlightNow == 2 * MaxNow
FlightTick ==
    /\ app = "running"
    /\ now < MaxFlightNow
    /\ now' = now + 1
    /\ UNCHANGED <<app, ipc, replaying, block_sample_groups, order, nev,
                   created, min_age, dpc, ready_groups, ready, sample, posts,
                   pg, pres, peers, pevents, connections, sup, sampled>>

NextFlight ==
    \/ OpenLogReader
    \/ ReplayDone
    \/ IngestFirst
    \/ IngestInFlight
    \/ IngestAgain
    \/ FlightTick
    \/ DrainTickUnset
    \/ DrainTickReplay
    \/ DrainTick
    \/ PostOk
    \/ PostRaises

SpecFlight == Init /\ [][NextFlight]_vars

\* C38: no two successful submits are made for the same group instance, and
\* the key the drain is about to delete is a key of block_sample_groups
C38_OneSubmitPerInstance ==
    /\ \A i, j \in 1..Len(posts) :
          (/\ i < j
           /\ posts[i].result = "ok" /\ posts[j].result = "ok"
           /\ posts[i].sample.block_hash = posts[j].sample.block_hash)
              => posts[i].inst # posts[j].inst
    /\ dpc = "posting" => ready_groups[ready] \in DOMAIN block_sample_groups

\* two groups of one block were submitted, and more records were ingested
\* than the two pipelines of four hold: one arrived while a sample was in
\* flight
C38_Witness ==
    /\ \E i, j \in 1..Len(posts) :
          /\ i < j
          /\ posts[i].result = "ok" /\ posts[j].result = "ok"
          /\ posts[i].sample.block_hash = posts[j].sample.block_hash
    /\ nev > 8

\* C39: when the drain deletes a group after a successful submit, the audit
\* log of the deleted group is the audit log its sample was built from
C39_DeletedLogIsSampledLog ==
    [][PostOk =>
          block_sample_groups[ready_groups[ready]].events = sampled]_vars

====
